---- MODULE Spec2Model ----
(***************************************************************************)
(* Washer/dryer notifier: the vibration state machine of                   *)
(* Washer_Dryer_Notifier.ino.                                              *)
(*                                                                         *)
(* The millisecond timer is modelled at a resolution of one cool-down      *)
(* period (60 s) and with TimerBits bits instead of 32, so that the        *)
(* delays of the sketch are 2 (stop), 3 (counter reset) and 1 (cool-down)  *)
(* timer units and a wraparound is reachable.  One loop() iteration takes  *)
(* far less than a timer unit: while loop() polls, the timer advances by   *)
(* at most one unit over two consecutive polls, at any point between two   *)
(* reads of the sensor; it advances freely while loop() is blocked in a    *)
(* notification, and by the cool-down in delay().                          *)
(***************************************************************************)
EXTENDS Integers, Sequences, FiniteSets

VARIABLES
  vibrationState,            \* 0: monitoring for vibration stop, 1: counting vibrations
  lastVibrationStateChange,  \* long: millis() of the last change of the sensor level
  previousVibrationValue,    \* int: the sensor level stored by the last edge
  startedTime,               \* long: millis() when the threshold was exceeded
  vibrationCounter,          \* int: edges counted towards the threshold
  ms,                        \* the value millis() returns now (unsigned, TimerBits wide)
  pc,                        \* position of the sketch: loop, connect, setValue, post, delay
  fn,                        \* the notification function being executed, or "none"
  ch,                        \* the DataToMaker object in use: 1 = event, 2 = event2
  value,                     \* value[c]: payload held by DataToMaker object c
  retries,                   \* failed connect() calls of the running retry loop
  delayLeft,                 \* timer units left of the running delay(60*1000)
  ticked,                    \* the timer advanced during the last poll
  rawLevel,                  \* history: the last digitalRead(VIB_PIN)
  lastEvent,                 \* history: the last lifecycle event issued
  openCycles,                \* history: CycleStarted issued minus CycleStopped issued
  trace,                     \* history: calls completed on the channels for lastEvent
  sinceEdge,                 \* history: timer units since lastVibrationStateChange was set
  edgeGap,                   \* history: timer units (capped) from the edge before to the last poll's edge
  edgeSeen,                  \* history: the last poll detected an edge
  discarded,                 \* history: the count the last poll's inactivity reset cleared
  watched                    \* history: a poll has run since the last CycleStarted

vars == <<vibrationState, lastVibrationStateChange, previousVibrationValue,
          startedTime, vibrationCounter, ms, pc, fn, ch, value, retries,
          delayLeft, rawLevel, lastEvent, openCycles, trace,
          sinceEdge, edgeGap, edgeSeen, discarded, ticked, watched>>

history == <<sinceEdge, edgeGap, edgeSeen, discarded, watched>>

(***************************************************************************)
(* Bounds and program constants.                                           *)
(***************************************************************************)
TimerBits == 3
MaxRetries == 2
VIBRATION_MONITORING_THRESHOLD == 2
VIBRATION_STOPPED_TIME_DELAY_SECONDS == 150
VIBRATION_COUNTER_RESET_DELAY_SECONDS == 180

COOLDOWN_MILLIS == 60 * 1000
Resolution == COOLDOWN_MILLIS
Modulus == 2 ^ TimerBits

STOPPED_TIME_DELAY == (VIBRATION_STOPPED_TIME_DELAY_SECONDS * 1000) \div Resolution
COUNTER_RESET_DELAY == (VIBRATION_COUNTER_RESET_DELAY_SECONDS * 1000) \div Resolution
CoolDown == COOLDOWN_MILLIS \div Resolution

STARTED_MESSAGE == "Washer started."
STOPPED_MESSAGE == "Washer is done."
NoMessage == ""

Channels == {1, 2}
Levels == {0, 1}
Drifts == 0 .. 3

(***************************************************************************)
(* Integer conversions of the sketch.                                      *)
(***************************************************************************)
\* unsigned long -> long (the assignments of millis() to a long)
ToLong(u) == IF u >= Modulus \div 2 THEN u - Modulus ELSE u

\* long -> unsigned long (the usual arithmetic conversion in millis() - long)
ToUnsignedLong(s) == s % Modulus

\* variant: the difference is taken as a long before abs
absAsLong(x) == IF ToLong(x) > 0 THEN ToLong(x) ELSE 0 - ToLong(x)

\* the abs(x) macro ((x)>0?(x):-(x)) on an unsigned long
absUnsigned(x) == IF x > 0 THEN x ELSE (0 - x) % Modulus

\* variant: previousVibrationValue - 1 without abs
NoAbs(x) == x

\* the abs(x) macro on an int
absInt(x) == IF x > 0 THEN x ELSE 0 - x

\* abs(millis() - lastVibrationStateChange)
Elapsed(now, last) == absUnsigned((now - ToUnsignedLong(last)) % Modulus)

\* millis() after the timer advanced by d units
After(t, d) == (t + d) % Modulus

\* a duration in timer units, recorded up to one full period of the timer
Saturated(d) == IF d > Modulus THEN Modulus ELSE d

\* a gap between edges, recorded up to "longer than the counter reset delay"
Capped(d) == IF d > COUNTER_RESET_DELAY THEN COUNTER_RESET_DELAY + 1 ELSE d

(***************************************************************************)
(* The conditions of checkForVibration, checkForVibrationStop and          *)
(* checkVibrationCounter.                                                  *)
(***************************************************************************)
\* variant: the level, not its change, is taken for a vibration
LevelHigh(r, prev) == r = 1

EdgeDetected(r, prev) == r # prev

\* variant: the edge is counted in either state
CountsEdgeInAnyState(edge, state) == edge

CountsEdge(edge, state) == edge /\ state = 1

\* variant: the comparison is off by one upwards
CounterResetLate(state, elapsed) == state = 1 /\ elapsed > COUNTER_RESET_DELAY + 1

CounterResetDue(state, elapsed) == state = 1 /\ elapsed > COUNTER_RESET_DELAY

\* variant: an elapsed time equal to the delay already counts as a stop
StopDueAtDelay(elapsed) == elapsed >= STOPPED_TIME_DELAY

StopDue(elapsed) == elapsed > STOPPED_TIME_DELAY

\* variant: the threshold itself already starts the monitoring
ThresholdReached(count) == count >= VIBRATION_MONITORING_THRESHOLD

\* variant: the comparison is off by one upwards
ThresholdPassedByTwo(count) == count > VIBRATION_MONITORING_THRESHOLD + 1

ThresholdExceeded(count) == count > VIBRATION_MONITORING_THRESHOLD

\* variant: the timestamp is refreshed outside the level comparison
TimestampEveryPoll(edge, state, t, last) == ToLong(t)

\* variant: the timestamp is refreshed inside if (vibrationState == 1)
TimestampWhileCounting(edge, state, t, last) ==
  IF edge /\ state = 1 THEN ToLong(t) ELSE last

\* lastVibrationStateChange after the edge detection; t is millis() of line 152
TimestampAfter(edge, state, t, last) == IF edge THEN ToLong(t) ELSE last

\* variant: vibrationState = 1 is missing after washerDryerNotification()
StateKept(f, state) == state

\* vibrationState = 1 follows the return of washerDryerNotification() only
StateOnReturn(f, state) == IF f = "washerDryerNotification" THEN 1 ELSE state

\* variant: washerDryerStarted() posts the message of washerDryerNotification()
AlwaysStoppedMessage(f) == STOPPED_MESSAGE

MessageOf(f) == IF f = "washerDryerStarted" THEN STARTED_MESSAGE ELSE STOPPED_MESSAGE

EventOf(f) == IF f = "washerDryerStarted" THEN "CycleStarted" ELSE "CycleStopped"

TypeOK ==
  /\ vibrationState \in {0, 1}
  /\ lastVibrationStateChange \in (0 - Modulus \div 2) .. (Modulus \div 2 - 1)
  /\ previousVibrationValue \in Levels
  /\ startedTime \in (0 - Modulus \div 2) .. (Modulus \div 2 - 1)
  /\ vibrationCounter \in 0 .. (VIBRATION_MONITORING_THRESHOLD + 1)
  /\ ms \in 0 .. (Modulus - 1)
  /\ pc \in {"loop", "connect", "setValue", "post", "delay"}
  /\ fn \in {"none", "washerDryerStarted", "washerDryerNotification"}
  /\ ch \in Channels
  /\ value \in [Channels -> {NoMessage, STARTED_MESSAGE, STOPPED_MESSAGE}]
  /\ retries \in 0 .. MaxRetries
  /\ delayLeft \in 0 .. CoolDown
  /\ rawLevel \in Levels
  /\ lastEvent \in {"none", "CycleStarted", "CycleStopped"}
  /\ openCycles \in -1 .. 2
  /\ Len(trace) <= 6
  /\ sinceEdge \in 0 .. Modulus
  /\ edgeGap \in 0 .. (COUNTER_RESET_DELAY + 1)
  /\ edgeSeen \in BOOLEAN
  /\ discarded \in 0 .. (VIBRATION_MONITORING_THRESHOLD + 1)
  /\ ticked \in BOOLEAN
  /\ watched \in BOOLEAN

(***************************************************************************)
(* setup(): wifiSetup() blocks for an arbitrary time, so millis() is       *)
(* arbitrary when the fields are initialised.                              *)
(***************************************************************************)
\* variant: setup() starts in state 0
InitMonitoring ==
  /\ ms \in 0 .. (Modulus - 1)
  /\ vibrationState = 0
  /\ lastVibrationStateChange = ToLong(ms)
  /\ previousVibrationValue = 0
  /\ vibrationCounter = 0
  /\ startedTime = 0
  /\ pc = "loop"
  /\ fn = "none"
  /\ ch = 1
  /\ value = [c \in Channels |-> NoMessage]
  /\ retries = 0
  /\ delayLeft = 0
  /\ rawLevel = 0
  /\ lastEvent = "none"
  /\ openCycles = 0
  /\ trace = << >>
  /\ sinceEdge = 0
  /\ edgeGap = 0
  /\ edgeSeen = FALSE
  /\ discarded = 0
  /\ ticked = FALSE
  /\ watched = TRUE

Init ==
  /\ ms \in 0 .. (Modulus - 1)
  /\ vibrationState = 1
  /\ lastVibrationStateChange = ToLong(ms)
  /\ previousVibrationValue = 0
  /\ vibrationCounter = 0
  /\ startedTime = 0
  /\ pc = "loop"
  /\ fn = "none"
  /\ ch = 1
  /\ value = [c \in Channels |-> NoMessage]
  /\ retries = 0
  /\ delayLeft = 0
  /\ rawLevel = 0
  /\ lastEvent = "none"
  /\ openCycles = 0
  /\ trace = << >>
  /\ sinceEdge = 0
  /\ edgeGap = 0
  /\ edgeSeen = FALSE
  /\ discarded = 0
  /\ ticked = FALSE
  /\ watched = TRUE

\* entry of washerDryerStarted() or washerDryerNotification()
Call(f) ==
  /\ pc' = "connect"
  /\ fn' = f
  /\ ch' = 1
  /\ retries' = 0
  /\ trace' = << >>
  /\ lastEvent' = EventOf(f)
  /\ openCycles' = IF f = "washerDryerStarted"
                   THEN (IF openCycles < 2 THEN openCycles + 1 ELSE 2)
                   ELSE (IF openCycles > -1 THEN openCycles - 1 ELSE -1)

NoCall ==
  /\ pc' = "loop"
  /\ UNCHANGED <<fn, ch, retries, trace, lastEvent, openCycles>>

(***************************************************************************)
(* One iteration of loop() up to the point where it returns or blocks in a *)
(* notification.  r is the level digitalRead returns; the timer advanced   *)
(* by one unit since the previous poll's last millis() call, and did so    *)
(* before the k-th of the three millis() calls of this poll (k = 0: it     *)
(* did not advance); it does not advance in two polls in a row.            *)
(***************************************************************************)
Loop(r, k) ==
  LET t1 == After(ms, IF k \in {1} THEN 1 ELSE 0)          \* millis() of line 152
      t2 == After(ms, IF k \in {1, 2} THEN 1 ELSE 0)       \* millis() of line 154
      t3 == After(ms, IF k \in {1, 2, 3} THEN 1 ELSE 0)    \* millis() of line 162 or 177
      edge == EdgeDetected(r, previousVibrationValue)
      counted == IF CountsEdge(edge, vibrationState)
                 THEN vibrationCounter + 1 ELSE vibrationCounter
      last == TimestampAfter(edge, vibrationState, t1, lastVibrationStateChange)
      count == IF CounterResetDue(vibrationState, Elapsed(t2, last))
               THEN 0 ELSE counted
      d1 == IF k \in {1} THEN 1 ELSE 0
      d3 == IF k \in {1, 2, 3} THEN 1 ELSE 0
  IN
  /\ pc = "loop"
  /\ k # 0 => ~ticked
  /\ ticked' = (k # 0)
  /\ watched' = ~(vibrationState = 1 /\ ThresholdExceeded(count))
  /\ rawLevel' = r
  /\ ms' = t3
  /\ previousVibrationValue' =
       IF edge THEN absInt(previousVibrationValue - 1) ELSE previousVibrationValue
  /\ lastVibrationStateChange' = last
  /\ IF vibrationState = 0
     THEN \* checkForVibrationStop
          /\ vibrationCounter' = count
          /\ UNCHANGED <<vibrationState, startedTime>>
          /\ IF StopDue(Elapsed(t3, last))
             THEN Call("washerDryerNotification")
             ELSE NoCall
     ELSE \* checkVibrationCounter
          IF ThresholdExceeded(count)
          THEN /\ vibrationCounter' = 0
               /\ vibrationState' = 0
               /\ startedTime' = ToLong(t3)
               /\ Call("washerDryerStarted")
          ELSE /\ vibrationCounter' = count
               /\ UNCHANGED <<vibrationState, startedTime>>
               /\ NoCall
  /\ edgeSeen' = edge
  /\ sinceEdge' = IF edge THEN d3 - d1 ELSE Saturated(sinceEdge + d3)
  /\ edgeGap' = IF edge THEN Capped(sinceEdge + d1) ELSE 0
  /\ discarded' = IF count # counted THEN counted ELSE 0
  /\ UNCHANGED <<value, delayLeft>>

Poll == \E r \in Levels, k \in Drifts : Loop(r, k)

\* variant: the retry loop polls the sensor as checkForVibration does
ConnectFailPolling ==
  /\ pc = "connect"
  /\ retries < MaxRetries
  /\ retries' = retries + 1
  /\ \E r \in Levels :
       /\ rawLevel' = r
       /\ previousVibrationValue' = r
       /\ lastVibrationStateChange' =
            IF r # previousVibrationValue THEN ToLong(ms) ELSE lastVibrationStateChange
       /\ sinceEdge' = IF r # previousVibrationValue THEN 0 ELSE sinceEdge
  /\ UNCHANGED <<vibrationState, startedTime, vibrationCounter, ms, pc, fn, ch,
                 value, delayLeft, lastEvent, openCycles, trace, edgeGap,
                 edgeSeen, discarded, ticked, watched>>

\* while (!event.connect()): connect() returned false
ConnectFail ==
  /\ pc = "connect"
  /\ retries < MaxRetries
  /\ retries' = retries + 1
  /\ UNCHANGED <<vibrationState, lastVibrationStateChange, previousVibrationValue,
                 startedTime, vibrationCounter, ms, pc, fn, ch, value, delayLeft,
                 rawLevel, lastEvent, openCycles, trace>>
  /\ UNCHANGED history
  /\ UNCHANGED ticked

\* variant: while (event.connect()), a connect() that returned true repeats
ConnectOkRepeats ==
  /\ pc = "connect"
  /\ retries' = 0
  /\ UNCHANGED <<vibrationState, lastVibrationStateChange, previousVibrationValue,
                 startedTime, vibrationCounter, ms, pc, fn, ch, value, delayLeft,
                 rawLevel, lastEvent, openCycles, trace>>
  /\ UNCHANGED history
  /\ UNCHANGED ticked

\* while (!event.connect()): connect() returned true
ConnectOk ==
  /\ pc = "connect"
  /\ pc' = "setValue"
  /\ retries' = 0
  /\ trace' = Append(trace, <<"connect", ch>>)
  /\ UNCHANGED <<vibrationState, lastVibrationStateChange, previousVibrationValue,
                 startedTime, vibrationCounter, ms, fn, ch, value, delayLeft,
                 rawLevel, lastEvent, openCycles>>
  /\ UNCHANGED history
  /\ UNCHANGED ticked

\* event.setValue(1, MESSAGE); delay(100) is below the timer resolution
SetValue ==
  /\ pc = "setValue"
  /\ pc' = "post"
  /\ value' = [value EXCEPT ![ch] = MessageOf(fn)]
  /\ trace' = Append(trace, <<"setValue", ch, MessageOf(fn)>>)
  /\ UNCHANGED <<vibrationState, lastVibrationStateChange, previousVibrationValue,
                 startedTime, vibrationCounter, ms, fn, ch, retries, delayLeft,
                 rawLevel, lastEvent, openCycles>>
  /\ UNCHANGED history
  /\ UNCHANGED ticked

\* event.post(): go on with event2
PostFirst ==
  /\ pc = "post"
  /\ ch = 1
  /\ pc' = "connect"
  /\ ch' = 2
  /\ trace' = Append(trace, <<"post", ch, value[ch]>>)
  /\ UNCHANGED <<vibrationState, lastVibrationStateChange, previousVibrationValue,
                 startedTime, vibrationCounter, ms, fn, value, retries, delayLeft,
                 rawLevel, lastEvent, openCycles>>
  /\ UNCHANGED history
  /\ UNCHANGED ticked

\* event2.post(), the return to the caller, and the start of its delay(60*1000)
PostSecond ==
  /\ pc = "post"
  /\ ch = 2
  /\ pc' = "delay"
  /\ ch' = 1
  /\ fn' = "none"
  /\ delayLeft' = CoolDown
  /\ trace' = Append(trace, <<"post", ch, value[ch]>>)
  /\ vibrationState' = StateOnReturn(fn, vibrationState)
  /\ vibrationCounter' = IF fn = "washerDryerNotification" THEN 0 ELSE vibrationCounter
  /\ UNCHANGED <<lastVibrationStateChange, previousVibrationValue, startedTime,
                 ms, value, retries, rawLevel, lastEvent, openCycles>>
  /\ UNCHANGED history
  /\ UNCHANGED ticked

\* delay(60*1000) returns, and with it loop(); delay() returns on a tick of
\* the timer, which does not advance again during the next poll
DelayDone ==
  /\ pc = "delay"
  /\ delayLeft = 0
  /\ pc' = "loop"
  /\ ticked' = TRUE
  /\ UNCHANGED <<vibrationState, lastVibrationStateChange, previousVibrationValue,
                 startedTime, vibrationCounter, ms, fn, ch, value, retries,
                 delayLeft, rawLevel, lastEvent, openCycles, trace>>
  /\ UNCHANGED history

\* the hardware timer advances by one unit while loop() is blocked
Advance ==
  /\ pc # "loop"
  /\ pc = "delay" => delayLeft > 0
  /\ ms' = After(ms, 1)
  /\ delayLeft' = IF pc = "delay" THEN delayLeft - 1 ELSE delayLeft
  /\ sinceEdge' = Saturated(sinceEdge + 1)
  /\ UNCHANGED <<edgeGap, edgeSeen, discarded, watched>>
  /\ UNCHANGED <<vibrationState, lastVibrationStateChange, previousVibrationValue,
                 startedTime, vibrationCounter, pc, fn, ch, value, retries,
                 rawLevel, lastEvent, openCycles, trace>>
  /\ UNCHANGED ticked

Next ==
  \/ Poll
  \/ ConnectFail
  \/ ConnectOk
  \/ SetValue
  \/ PostFirst
  \/ PostSecond
  \/ DelayDone
  \/ Advance

Spec == Init /\ [][Next]_vars

\* a poll during which the timer advanced
PollDrift == \E r \in Levels, k \in Drifts \ {0} : Loop(r, k)

(***************************************************************************)
(* The scheduling the sketch runs under: the Arduino core calls loop()     *)
(* again whenever it returned, the hardware timer keeps counting (at       *)
(* "loop" it is seen to advance by a poll), every connect() loop sees a    *)
(* true connect() at some point, and setValue(), post() and delay()        *)
(* return.                                                                 *)
(***************************************************************************)
Fairness ==
  /\ WF_vars(Poll)
  /\ WF_vars(PollDrift)
  /\ WF_vars(ConnectOk)
  /\ WF_vars(SetValue)
  /\ WF_vars(PostFirst)
  /\ WF_vars(PostSecond)
  /\ WF_vars(Advance)
  /\ WF_vars(DelayDone)

FairSpec == Spec /\ Fairness

(***************************************************************************)
(* Properties.  The steps taken at "loop" are the polls; the level a poll   *)
(* read is rawLevel', and it is an edge iff it differs from the            *)
(* previousVibrationValue the poll started with.                           *)
(***************************************************************************)
IsPoll == pc = "loop"

IsEdge == IsPoll /\ rawLevel' # previousVibrationValue

\* C1: vibrationCounter increases only in a poll that starts in state 1
\* (Accumulating) and reads a level different from the stored one, and then
\* by exactly 1; a poll that detects an edge in state 0 (MonitoringForStop)
\* leaves the counter as it is.
C1_CountOnlyEdgesWhileAccumulating ==
  [][ /\ vibrationCounter' > vibrationCounter =>
           /\ IsEdge
           /\ vibrationState = 1
           /\ vibrationCounter' = vibrationCounter + 1
      /\ (IsEdge /\ vibrationState = 0) => vibrationCounter' = vibrationCounter
    ]_vars

C1_Witness ==
  /\ vibrationState = 1
  /\ edgeSeen
  /\ vibrationCounter = VIBRATION_MONITORING_THRESHOLD
  /\ pc = "loop"

\* C2: the state goes from 1 (Accumulating) to 0 (MonitoringForStop) only in
\* a poll whose count, after the edge of that poll is added, is strictly
\* greater than the threshold, and vibrationCounter is 0 right after it; a
\* poll that leaves the count at the threshold or below stays in state 1.
C2_StartOnlyAboveThreshold ==
  [][ LET counted == IF IsEdge THEN vibrationCounter + 1 ELSE vibrationCounter
      IN  /\ (vibrationState = 1 /\ vibrationState' = 0) =>
                /\ IsPoll
                /\ counted > VIBRATION_MONITORING_THRESHOLD
                /\ vibrationCounter' = 0
          /\ (IsPoll /\ vibrationState = 1
                /\ counted <= VIBRATION_MONITORING_THRESHOLD) => vibrationState' = 1
    ]_vars

C2_Witness ==
  /\ vibrationState = 0
  /\ vibrationCounter = 0
  /\ fn = "washerDryerStarted"
  /\ pc = "connect"
  /\ trace = << >>

\* C3: a poll in state 1 whose edge brings the count to the threshold plus
\* one enters state 0 in that same poll, stores the current millis() in
\* startedTime, clears the count and calls washerDryerStarted() once.
C3_ThresholdPlusOneStartsCycle ==
  [][ (IsEdge /\ vibrationState = 1
        /\ vibrationCounter = VIBRATION_MONITORING_THRESHOLD) =>
          /\ vibrationState' = 0
          /\ vibrationCounter' = 0
          /\ startedTime' = (IF ms' >= Modulus \div 2 THEN ms' - Modulus ELSE ms')
          /\ fn' = "washerDryerStarted"
          /\ pc' = "connect"
          /\ lastEvent' = "CycleStarted"
          /\ openCycles' = openCycles + 1
    ]_vars

C3_Witness ==
  /\ vibrationState = 0
  /\ vibrationCounter = 0
  /\ edgeSeen
  /\ lastEvent = "CycleStarted"
  /\ openCycles = 1
  /\ startedTime = lastVibrationStateChange
  /\ pc = "connect"
  /\ ch = 1
  /\ retries = 1

\* the elapsed time the sketch computes from timer value t and a timestamp
TimerDiff(t, stamp) == (t - stamp) % Modulus

\* C4: a poll that starts in state 0 calls washerDryerNotification() iff the
\* timer minus lastVibrationStateChange, taken after the edge detection of
\* that poll, is strictly greater than the stop delay, whatever the counter
\* holds; CycleStopped is issued by such a poll only, and the state returns
\* to 1 only on the return of that call, with the counter at 0.
C4_StopIffDelayExceeded ==
  [][ /\ (IsPoll /\ vibrationState = 0) =>
            ((fn' = "washerDryerNotification") <=>
               (TimerDiff(ms', lastVibrationStateChange') > STOPPED_TIME_DELAY))
      /\ (fn' = "washerDryerNotification" /\ fn = "none") =>
            /\ IsPoll
            /\ vibrationState = 0
            /\ lastEvent' = "CycleStopped"
            /\ pc' = "connect"
      /\ (vibrationState = 0 /\ vibrationState' = 1) =>
            /\ fn = "washerDryerNotification"
            /\ lastEvent = "CycleStopped"
            /\ vibrationCounter' = 0
    ]_vars

C4_Witness ==
  /\ vibrationState = 1
  /\ vibrationCounter = 0
  /\ lastEvent = "CycleStopped"
  /\ fn = "none"
  /\ pc = "delay"
  /\ sinceEdge > STOPPED_TIME_DELAY

\* C5: a poll that reads the stored level again never raises the counter,
\* never changes the state, the stored level or the timestamp and never
\* issues CycleStarted; it changes the counter only by the inactivity reset
\* (state 1, elapsed time above the counter reset delay, counter 0
\* afterwards) and calls a notification only for the stop (state 0, elapsed
\* time above the stop delay).
C5_NoEdgeOnlyTimeouts ==
  [][ (IsPoll /\ rawLevel' = previousVibrationValue) =>
        /\ vibrationCounter' <= vibrationCounter
        /\ vibrationState' = vibrationState
        /\ previousVibrationValue' = previousVibrationValue
        /\ lastVibrationStateChange' = lastVibrationStateChange
        /\ fn' # "washerDryerStarted"
        /\ vibrationCounter' # vibrationCounter =>
              /\ vibrationState = 1
              /\ vibrationCounter' = 0
              /\ \E t \in {ms, ms'} :
                    TimerDiff(t, lastVibrationStateChange) > COUNTER_RESET_DELAY
        /\ fn' # "none" =>
              /\ vibrationState = 0
              /\ TimerDiff(ms', lastVibrationStateChange) > STOPPED_TIME_DELAY
    ]_vars

C5_Witness ==
  /\ vibrationState = 1
  /\ vibrationCounter = 1
  /\ ~edgeSeen
  /\ discarded = 0
  /\ sinceEdge = COUNTER_RESET_DELAY
  /\ pc = "loop"

\* C6: in state 1, a poll without an edge that finds more than the counter
\* reset delay elapsed since the last edge clears the counter, stays in
\* state 1 and issues no event; a poll in state 0 never changes the counter.
C6_InactivityResetKeepsAccumulating ==
  [][ /\ (IsPoll /\ ~IsEdge /\ vibrationState = 1
            /\ sinceEdge > COUNTER_RESET_DELAY) =>
            /\ vibrationCounter' = 0
            /\ vibrationState' = 1
            /\ pc' = "loop"
            /\ fn' = "none"
            /\ lastEvent' = lastEvent
      /\ (IsPoll /\ vibrationState = 0) => vibrationCounter' = vibrationCounter
    ]_vars

C6_Witness ==
  /\ vibrationState = 1
  /\ vibrationCounter = 0
  /\ discarded = VIBRATION_MONITORING_THRESHOLD
  /\ sinceEdge > COUNTER_RESET_DELAY
  /\ lastEvent = "none"
  /\ pc = "loop"

\* C7: in state 0 a poll that detects an edge refreshes the timestamp and
\* issues nothing; CycleStopped is issued, and state 0 left, only when more
\* than the stop delay has passed since the last detected edge.
C7_EdgeRestartsStopWindow ==
  [][ /\ (IsEdge /\ vibrationState = 0) =>
            /\ vibrationState' = 0
            /\ pc' = "loop"
            /\ fn' = "none"
            /\ lastEvent' = lastEvent
            /\ TimerDiff(ms', lastVibrationStateChange') <= 1
      /\ (fn' = "washerDryerNotification" /\ fn = "none") =>
            sinceEdge' > STOPPED_TIME_DELAY
      /\ (vibrationState = 0 /\ vibrationState' = 1) =>
            sinceEdge' > STOPPED_TIME_DELAY
    ]_vars

C7_Witness ==
  /\ vibrationState = 0
  /\ edgeSeen
  /\ edgeGap = STOPPED_TIME_DELAY - 1
  /\ lastEvent = "CycleStarted"
  /\ fn = "none"
  /\ pc = "loop"

\* C8: the lifecycle events alternate, starting with CycleStarted: the
\* number of CycleStarted issued minus the number of CycleStopped issued is
\* 1 after a CycleStarted and 0 otherwise, the state is 0 from a
\* CycleStarted on, and 1 once the call that issued a CycleStopped returned.
C8_EventsAlternate ==
  /\ openCycles \in {0, 1}
  /\ lastEvent = "none" => (openCycles = 0 /\ vibrationState = 1)
  /\ lastEvent = "CycleStarted" => (openCycles = 1 /\ vibrationState = 0)
  /\ lastEvent = "CycleStopped" =>
        (openCycles = 0 /\ (fn = "none" => vibrationState = 1))

C8_Witness ==
  /\ lastEvent = "CycleStopped"
  /\ openCycles = 0
  /\ fn = "none"
  /\ vibrationState = 1
  /\ vibrationCounter = 1
  /\ pc = "loop"

\* position of the notification in its six calls
CallsDone ==
  IF fn = "none" THEN 6
  ELSE 3 * (ch - 1) + (IF pc = "setValue" THEN 1 ELSE IF pc = "post" THEN 2 ELSE 0)

\* C9: for each lifecycle event the calls completed on the channels are a
\* prefix of connect, setValue, post on channel 1 followed by connect,
\* setValue, post on channel 2, complete when the notification returns, with
\* the started message for CycleStarted and the stopped message for
\* CycleStopped; a connect that returns false is only repeated.
C9_NotificationProtocol ==
  /\ [](LET msg == IF lastEvent = "CycleStarted"
                   THEN "Washer started." ELSE "Washer is done."
            full == << <<"connect", 1>>, <<"setValue", 1, msg>>, <<"post", 1, msg>>,
                       <<"connect", 2>>, <<"setValue", 2, msg>>, <<"post", 2, msg>> >>
        IN  /\ (fn = "none") <=> (pc \in {"loop", "delay"})
            /\ lastEvent # "none" => trace = SubSeq(full, 1, CallsDone))
  /\ [][ retries' > retries =>
            (pc = "connect" /\ pc' = "connect" /\ ch' = ch /\ trace' = trace) ]_vars

C9_Witness ==
  /\ lastEvent = "CycleStopped"
  /\ fn = "none"
  /\ pc = "delay"
  /\ Len(trace) = 6
  /\ value = [c \in Channels |-> "Washer is done."]

\* C10: setup() leaves state 1 (Accumulating), counter 0 and stored level 0,
\* and vibrationState is 0 or 1 in every reachable state.
C10_TwoStatesStartAccumulating ==
  /\ vibrationState = 1
  /\ vibrationCounter = 0
  /\ previousVibrationValue = 0
  /\ [](vibrationState \in {0, 1})

C10_Witness ==
  /\ vibrationState = 0
  /\ fn = "none"
  /\ pc = "loop"
  /\ ~edgeSeen

\* C11: as long as less than one full period of the timer has passed since
\* lastVibrationStateChange was set, the elapsed time the sketch computes
\* from the wrapped timer and the signed timestamp is the time that really
\* passed; a poll in state 0 then calls the stop notification iff more than
\* the stop delay really passed, and a poll clears a count by inactivity
\* only if more than the counter reset delay really passed.
C11_WraparoundTolerated ==
  /\ [](sinceEdge < Modulus =>
          Elapsed(ms, lastVibrationStateChange) = sinceEdge)
  /\ [][ (IsPoll /\ sinceEdge' < Modulus) =>
            /\ vibrationState = 0 =>
                  ((fn' = "washerDryerNotification") <=>
                     (sinceEdge' > STOPPED_TIME_DELAY))
            /\ discarded' > 0 => sinceEdge' > COUNTER_RESET_DELAY
        ]_vars

C11_Witness ==
  /\ lastVibrationStateChange < 0
  /\ ms < Modulus \div 2
  /\ sinceEdge = STOPPED_TIME_DELAY + 1
  /\ fn = "washerDryerNotification"
  /\ pc = "connect"
  /\ trace = << >>

\* the long that holds timer value t
Stored(t) == IF t >= Modulus \div 2 THEN t - Modulus ELSE t

\* C12: a poll that reads a level different from the stored one flips the
\* stored level and sets the timestamp to the timer value of that poll, in
\* either state; any other poll leaves both as they are, so that the stored
\* level is the level read after every poll; no step other than a poll
\* changes the stored level or the timestamp.
C12_EdgeTracking ==
  [][ /\ IsEdge =>
            /\ previousVibrationValue' = 1 - previousVibrationValue
            /\ \E t \in {ms, ms'} : lastVibrationStateChange' = Stored(t)
      /\ (IsPoll /\ ~IsEdge) =>
            /\ previousVibrationValue' = previousVibrationValue
            /\ lastVibrationStateChange' = lastVibrationStateChange
      /\ IsPoll => previousVibrationValue' = rawLevel'
      /\ ~IsPoll =>
            /\ previousVibrationValue' = previousVibrationValue
            /\ lastVibrationStateChange' = lastVibrationStateChange
    ]_vars

C12_Witness ==
  /\ vibrationState = 0
  /\ edgeSeen
  /\ rawLevel = 0
  /\ previousVibrationValue = 0
  /\ lastVibrationStateChange = Stored(ms)
  /\ sinceEdge = 0
  /\ watched
  /\ pc = "loop"

\* C13: loop() never ends and never blocks for good.  Some step is possible
\* in every state; a connect() that returned false changes nothing but the
\* number of attempts and leaves the sketch in the same loop; and when every
\* connect() loop sees a true connect() at some point, the sensor is polled
\* again and again; a poll starts outside the notification functions only,
\* so that each call of one has returned by the next poll.
C13_LoopNeverExits ==
  /\ [](ENABLED <<Next>>_vars)
  /\ [][ (pc = "connect" /\ retries' > retries) =>
           (pc' = "connect" /\ fn' = fn /\ ch' = ch /\ trace' = trace
              /\ vibrationState' = vibrationState) ]_vars
  /\ [](pc = "loop" => fn = "none")
  /\ []<><<Poll>>_vars

C13_Witness ==
  /\ fn = "washerDryerNotification"
  /\ pc = "connect"
  /\ ch = 1
  /\ retries = MaxRetries
  /\ Len(trace) = 0
  /\ openCycles = 0

\* C14: while a notification call or the cool-down delay is running, no
\* sensor sample is taken and the stored level, the counter and the
\* timestamp keep their values, however far the timer advances; loop() is
\* away from polling only then.
C14_PollingHaltedWhileBlocked ==
  /\ []((pc # "loop") <=> (fn # "none" \/ pc = "delay"))
  /\ [][ pc # "loop" =>
            /\ rawLevel' = rawLevel
            /\ previousVibrationValue' = previousVibrationValue
            /\ vibrationCounter' = vibrationCounter
            /\ lastVibrationStateChange' = lastVibrationStateChange
            /\ edgeSeen' = edgeSeen
        ]_vars

C14_Witness ==
  /\ pc = "connect"
  /\ ch = 2
  /\ retries = MaxRetries
  /\ fn = "washerDryerStarted"
  /\ sinceEdge = Modulus

\* C15: in state 0 (MonitoringForStop) the cycle comes to an end unless the
\* sensor goes on vibrating: from every point where loop() is about to poll
\* in state 0 and the last poll saw no edge, either a later poll detects an
\* edge, or washerDryerNotification is called and, once it returned, the
\* state is 1 (Accumulating) again with the counter at 0.
C15_StopEventuallyEmitted ==
  (vibrationState = 0 /\ pc = "loop" /\ ~edgeSeen)
     ~> (edgeSeen \/ (vibrationState = 1 /\ vibrationCounter = 0
                        /\ lastEvent = "CycleStopped" /\ fn = "none"))

C15_Witness ==
  /\ vibrationState = 0
  /\ pc = "loop"
  /\ ~edgeSeen
  /\ lastEvent = "CycleStarted"
  /\ sinceEdge = STOPPED_TIME_DELAY
  /\ ticked

\* C18: the counter is between 0 and the threshold whenever loop() is not
\* in the middle of a poll (a poll adds 1 at most, so that it holds the
\* threshold plus one at most before it is cleared), and it is 0 in every
\* state with vibrationState = 0.
C18_CounterBounds ==
  /\ vibrationCounter >= 0
  /\ vibrationCounter <= VIBRATION_MONITORING_THRESHOLD
  /\ vibrationState = 0 => vibrationCounter = 0

C18_Witness ==
  /\ vibrationState = 0
  /\ vibrationCounter = 0
  /\ edgeSeen
  /\ watched
  /\ lastEvent = "CycleStarted"
  /\ sinceEdge = 1
  /\ pc = "loop"

\* C16: in state 1, a poll that detects an edge more than the counter reset
\* delay after the edge before it leaves the counter at 1: the old count is
\* not carried over the gap.
C16_StaleCountDiscarded ==
  [][ (IsEdge /\ vibrationState = 1 /\ vibrationState' = 1
        /\ edgeGap' > COUNTER_RESET_DELAY) => vibrationCounter' = 1
    ]_vars

\* C17: the poll that calls washerDryerNotification() is never the first
\* poll after CycleStarted was issued: the time loop() spent in the
\* notification and the cool-down does not count towards the stop delay.
C17_NoStopOnFirstPollAfterStart ==
  [][ (IsPoll /\ fn' = "washerDryerNotification") => watched ]_vars

\* what C19 says of one poll, but for the relation of the two timestamps
OneTransitionPerPoll ==
  /\ (IsPoll /\ vibrationState = 1) => fn' # "washerDryerNotification"
  /\ (IsPoll /\ vibrationState = 0) =>
        (fn' # "washerDryerStarted" /\ vibrationState' = 0)
  /\ fn # "none" => lastEvent' = lastEvent
  /\ (vibrationState = 0 /\ vibrationState' = 1) => pc = "post"
  /\ (vibrationState = 1 /\ vibrationState' = 0) => IsEdge

\* C19 as claimed: a poll takes at most one transition and issues at most
\* one event, state 1 is left only by a poll that detected an edge, and
\* startedTime then equals lastVibrationStateChange.
C19_OneTransitionSameTimestamp ==
  [][ /\ OneTransitionPerPoll
      /\ (vibrationState = 1 /\ vibrationState' = 0) =>
            startedTime' = lastVibrationStateChange'
    ]_vars

\* C19 as amended: a poll takes at most one transition and issues at most
\* one event, state 1 is left only by a poll that detected an edge, and
\* startedTime, read by a later millis() call of the same poll, is then
\* lastVibrationStateChange or one timer unit more.
C19_OneTransitionLaterTimestamp ==
  [][ /\ OneTransitionPerPoll
      /\ (vibrationState = 1 /\ vibrationState' = 0) =>
            TimerDiff(startedTime', lastVibrationStateChange') \in {0, 1}
    ]_vars

C19_Witness ==
  /\ fn = "washerDryerStarted"
  /\ pc = "connect"
  /\ ch = 1
  /\ vibrationState = 0
  /\ edgeSeen
  /\ ~watched
  /\ startedTime = Stored(ms)
  /\ startedTime # lastVibrationStateChange

====
